---- MODULE Spec2Model ----
(***************************************************************************)
(* SearchInProject: the search-engine adapter (searchengines/base.py) and  *)
(* the result session (search_in_project.py).                              *)
(*                                                                         *)
(* Strings are sequences of one-character strings, so that split, strip,   *)
(* replace, join and the HAS_COLUMN_INFO pattern are computed character by *)
(* character as Python computes them.  Bytes of a process stream are the   *)
(* same, plus INVALID_BYTE for a byte that is not valid UTF-8.             *)
(***************************************************************************)
EXTENDS Integers, Sequences, FiniteSets, TLC

VARIABLES
    \* ---- the result session (one command object) ----
    command,                      \* class of the command object
    show_list_by_default,         \* setting search_in_project_show_list_by_default
    results,                      \* self.results
    last_search_string,           \* self.last_search_string
    last_selected_result_index,   \* self.last_selected_result_index
    common_path,                  \* self.common_path (UNSET before the first search)
    runs,                         \* the engine runs of the last perform_search
    returned,                     \* what run_engine returned to line 91 (<<>> if it raised)
    reported,                     \* messages shown by the last perform_search
    shown,                        \* what the last perform_search displayed
    event,                        \* the last handler the host invoked, and what it did
    panel_open,                   \* the quick panel of the last search is still up
    open_views,                   \* file names of window.views()
    marked_views,                 \* those carrying the "search_in_project" regions
    \* ---- Base._parse_output applied to one output ----
    p_tuple,                      \* (path, line, col, text) the output was formatted from, or <<>>
    p_text,                       \* the output handed to _parse_output
    p_keep,                       \* keep_adjacents
    p_result,                     \* the list returned
    p_pc,
    \* ---- Base._filter_lines_without_matches applied, then applied again ----
    f_line_parts,                 \* the line_parts handed to the filter
    f_keep,                       \* keep_adjacents
    f_out,                        \* what the generator yields
    f_again,                      \* what it yields when fed f_out
    f_pc,
    \* ---- find_common_path, shortening and re-prepending one locator ----
    c_roots,                      \* the search roots
    c_locator,                    \* a locator the engine reported under a root
    c_common,                     \* find_common_path(c_roots)
    c_short,                      \* the locator as perform_search stores it
    c_full,                       \* the locator as open_and_highlight_file rebuilds it
    c_pc

sessionVars == <<command, show_list_by_default, results, last_search_string,
                 last_selected_result_index, common_path, runs, returned,
                 reported, shown, event, panel_open, open_views, marked_views>>
parseVars   == <<p_tuple, p_text, p_keep, p_result, p_pc>>
filterVars  == <<f_line_parts, f_keep, f_out, f_again, f_pc>>
pathVars    == <<c_roots, c_locator, c_common, c_short, c_full, c_pc>>
vars        == <<sessionVars, parseVars, filterVars, pathVars>>

----------------------------------------------------------------------------
(* Python string primitives *)

\* whitespace removed by str.strip()
WS == {" ", "\n", "\t", "\r"}

\* characters matched by \d and accepted by int() (ASCII part)
DIGITS == {"0", "1", "2", "3", "4", "5", "6", "7", "8", "9"}

\* a byte that bytes.decode('utf-8', 'ignore') drops
INVALID_BYTE == "xFF"

RECURSIVE lstrip(_)
lstrip(s) == IF s # <<>> /\ Head(s) \in WS THEN lstrip(Tail(s)) ELSE s

RECURSIVE rstrip(_)
rstrip(s) ==
    IF s # <<>> /\ s[Len(s)] \in WS THEN rstrip(SubSeq(s, 1, Len(s) - 1)) ELSE s

\* str.strip()
strip(s) == rstrip(lstrip(s))

\* s.startswith(prefix)
startswith(s, prefix) ==
    Len(prefix) <= Len(s) /\ SubSeq(s, 1, Len(prefix)) = prefix

\* index of the first occurrence of the character sep in s, 0 if none
find(s, sep, from) ==
    LET at == {i \in from..Len(s) : s[i] = sep}
    IN  IF at = {} THEN 0 ELSE CHOOSE i \in at : \A j \in at : i <= j

\* s.split(sep, maxsplit) for a one-character sep; maxsplit = -1 is unlimited
RECURSIVE split(_, _, _)
split(s, sep, maxsplit) ==
    LET i == find(s, sep, 1)
    IN  IF maxsplit = 0 \/ i = 0 THEN <<s>>
        ELSE <<SubSeq(s, 1, i - 1)>>
             \o split(SubSeq(s, i + 1, Len(s)), sep, maxsplit - 1)

\* sep.join(parts)
RECURSIVE join(_, _)
join(sep, parts) ==
    IF parts = <<>> THEN <<>>
    ELSE IF Len(parts) = 1 THEN parts[1]
    ELSE parts[1] \o sep \o join(sep, Tail(parts))

\* s.replace(old, new): every non-overlapping occurrence, left to right
RECURSIVE replace(_, _, _)
replace(s, old, new) ==
    IF old = <<>> \/ Len(s) < Len(old) THEN s
    ELSE IF startswith(s, old)
         THEN new \o replace(SubSeq(s, Len(old) + 1, Len(s)), old, new)
         ELSE <<Head(s)>> \o replace(Tail(s), old, new)

\* s[:n]
prefix(s, n) == SubSeq(s, 1, IF n < Len(s) THEN n ELSE Len(s))

DigitValue(c) ==
    CASE c = "0" -> 0 [] c = "1" -> 1 [] c = "2" -> 2 [] c = "3" -> 3
      [] c = "4" -> 4 [] c = "5" -> 5 [] c = "6" -> 6 [] c = "7" -> 7
      [] c = "8" -> 8 [] c = "9" -> 9

AllDigits(s) == s # <<>> /\ \A i \in 1..Len(s) : s[i] \in DIGITS

RECURSIVE Decimal(_)
Decimal(s) ==
    IF s = <<>> THEN 0
    ELSE 10 * Decimal(SubSeq(s, 1, Len(s) - 1)) + DigitValue(s[Len(s)])

\* int(s) raises ValueError unless s, stripped, is an optional sign and digits
IntRaises(s) ==
    LET t == strip(s)
        d == IF t # <<>> /\ Head(t) \in {"+", "-"} THEN Tail(t) ELSE t
    IN  ~AllDigits(d)

\* int(s) where it does not raise (Python integers are unbounded)
int(s) ==
    LET t == strip(s)
    IN  IF t # <<>> /\ Head(t) = "-" THEN 0 - Decimal(Tail(t))
        ELSE IF t # <<>> /\ Head(t) = "+" THEN Decimal(Tail(t))
        ELSE Decimal(t)

----------------------------------------------------------------------------
(* searchengines/base.py *)

\* a pattern that finds column info in no line
HAS_COLUMN_INFO_never(line) == FALSE

\* HAS_COLUMN_INFO.match(line): ^[^:]+:\d+:\d+:
\* [^:]+ ends at the first colon, each \d+ at the next one
HAS_COLUMN_INFO(line) ==
    LET i == find(line, ":", 1)
        j == IF i = 0 THEN 0 ELSE find(line, ":", i + 1)
        k == IF j = 0 THEN 0 ELSE find(line, ":", j + 1)
    IN  /\ 1 < i /\ i < j /\ j < k
        /\ AllDigits(SubSeq(line, i + 1, j - 1))
        /\ AllDigits(SubSeq(line, j + 1, k - 1))

\* output.decode('utf-8', 'ignore')
decode(bytes) == SelectSeq(bytes, LAMBDA b : b # INVALID_BYTE)

_sanitize_output(output) == strip(decode(output))

\* the body evaluates "returncode != 0" and discards it: the method returns
\* None, which the caller's "if" takes as false
_is_search_error(returncode, output, error) == FALSE

\* the skip condition, were it to leave the file names out
SkipAdjacentAnyFile(last_line_part, this_line_part) ==
    /\ ~IntRaises(this_line_part[2])
    /\ ~IntRaises(last_line_part[2])
    /\ int(this_line_part[2]) = int(last_line_part[2]) + 1

\* the skip condition of the adjacency filter, with the try/except around it
SkipAdjacent(last_line_part, this_line_part) ==
    /\ this_line_part[1] = last_line_part[1]
    /\ ~IntRaises(this_line_part[2])
    /\ ~IntRaises(last_line_part[2])
    /\ int(this_line_part[2]) = int(last_line_part[2]) + 1

\* the generator, were it not to yield the first value
RECURSIVE YieldFromWithoutFirst(_, _)
YieldFromWithoutFirst(r, i) ==
    IF i > Len(r) THEN <<>>
    ELSE IF i = 1 THEN YieldFromWithoutFirst(r, 2)
    ELSE IF SkipAdjacent(r[i - 1], r[i]) THEN YieldFromWithoutFirst(r, i + 1)
    ELSE <<r[i]>> \o YieldFromWithoutFirst(r, i + 1)

\* the elements the generator yields from r[i..] when keep_adjacents is false
RECURSIVE YieldFrom(_, _)
YieldFrom(r, i) ==
    IF i > Len(r) THEN <<>>
    ELSE IF i = 1 THEN <<r[1]>> \o YieldFrom(r, 2)
    ELSE IF SkipAdjacent(r[i - 1], r[i]) THEN YieldFrom(r, i + 1)
    ELSE <<r[i]>> \o YieldFrom(r, i + 1)

\* the filter, were it to let lines of two fields through
_filter_lines_with_two_fields(line_parts, keep_adjacents) ==
    LET r == SelectSeq(line_parts, LAMBDA line : Len(line) > 1)
    IN  IF ~keep_adjacents THEN YieldFrom(r, 1) ELSE r

_filter_lines_without_matches(line_parts, keep_adjacents) ==
    LET r == SelectSeq(line_parts, LAMBDA line : Len(line) > 2)
    IN  IF ~keep_adjacents THEN YieldFrom(r, 1) ELSE r

_parse_output(output, keep_adjacents) ==
    LET lines == split(output, "\n", -1)
        line_parts == [i \in 1..Len(lines) |->
                          IF HAS_COLUMN_INFO(lines[i])
                          THEN split(lines[i], ":", 3)
                          ELSE split(lines[i], ":", 2)]
        kept == _filter_lines_without_matches(line_parts, keep_adjacents)
    IN  [i \in 1..Len(kept) |->
            <<join(<<":">>, SubSeq(kept[i], 1, Len(kept[i]) - 1)),
              strip(kept[i][Len(kept[i])])>>]

----------------------------------------------------------------------------
(* search_in_project.py: paths *)

QUOTE == "\""

\* the loop, were it to go on after a segment that differs
RECURSIVE CommonSegmentsOfFirst(_)
CommonSegmentsOfFirst(paths) ==
    IF \E i \in 1..Len(paths) : Len(paths[i]) = 0 THEN <<>>
    ELSE <<paths[1][1]>>
         \o CommonSegmentsOfFirst([i \in 1..Len(paths) |-> Tail(paths[i])])

\* the while loop of find_common_path
RECURSIVE CommonSegments(_)
CommonSegments(paths) ==
    IF \E i \in 1..Len(paths) : Len(paths[i]) = 0 THEN <<>>
    ELSE LET next_segment == {paths[i][1] : i \in 1..Len(paths)}
         IN  IF Cardinality(next_segment) = 1
             THEN <<paths[1][1]>>
                  \o CommonSegments([i \in 1..Len(paths) |-> Tail(paths[i])])
             ELSE <<>>

find_common_path(paths) ==
    LET unquoted == [i \in 1..Len(paths) |-> replace(paths[i], <<QUOTE>>, <<>>)]
        segments == [i \in 1..Len(paths) |-> split(unquoted[i], "/", -1)]
    IN  <<QUOTE>> \o join(<<"/">>, CommonSegments(segments)) \o <<"/", QUOTE>>

\* perform_search line 93, the locator: result[0].replace(common_path.replace('"', ''), '')
Shorten(cp, locator) == replace(locator, replace(cp, <<QUOTE>>, <<>>), <<>>)

\* open_and_highlight_file line 118 / clear_markup line 162
Reprepend(cp, short) == replace(cp, <<QUOTE>>, <<>>) \o short

----------------------------------------------------------------------------
(* The external search process and Base.run *)

\* search_in_project.py line 36
MAX_RESULT_LINE_LENGTH == 1000

\* the synthetic trailing entry of the quick panel (line 97, without its backquotes)
LIST_IN_VIEW == "List results in view"

\* value of common_path before the first perform_search sets the attribute
UNSET == <<"u", "n", "s", "e", "t">>

\* settings: search_in_project_engine
ENGINE_NAME == "grep"

NO_SUCH_DIRECTORY ==
    <<"n", "o", " ", "s", "u", "c", "h", " ", "d", "i", "r", "e", "c", "t",
      "o", "r", "y">>

\* standard error of a failing tool: padded, with a byte that is not UTF-8
STDERR_BYTES == <<" ">> \o SubSeq(NO_SUCH_DIRECTORY, 1, 3) \o <<INVALID_BYTE>>
                \o SubSeq(NO_SUCH_DIRECTORY, 4, 17) \o <<"\n">>

\* standard output of the tool: three matches, two of them on adjacent lines
STDOUT_LINES ==
    <<"/", "r", "/", "a", ".", "t", "x", "t", ":", "1", ":", "h", "e", "l",
      "l", "o", "\n", "/", "r", "/", "a", ".", "t", "x", "t", ":", "2", ":",
      "h", "e", "l", "l", "o", " ", "a", "g", "a", "i", "n", "\n", "/", "r",
      "/", "b", ".", "t", "x", "t", ":", "5", ":", "o", "t", "h", "e", "r">>

\* what one spawned process can do: fail to launch (OSError), or terminate
\* with an exit status and the two captured streams
ProcOutcomes ==
    { [launched |-> FALSE, returncode |-> 0, output |-> <<>>, error |-> <<>>],
      [launched |-> TRUE,  returncode |-> 0, output |-> <<>>, error |-> <<>>],
      [launched |-> TRUE,  returncode |-> 0, output |-> STDOUT_LINES \o <<"\n">>,
       error |-> <<>>],
      [launched |-> TRUE,  returncode |-> 2, output |-> <<>>,
       error |-> STDERR_BYTES] }

\* the outcomes of the n processes of one run_engine call: they all succeed
\* alike, except at most one of them
ProcChoices(n) ==
    { [i \in 1..n |-> IF i = k THEN one ELSE rest] :
        k \in 1..n, one \in ProcOutcomes,
        rest \in {o \in ProcOutcomes : o.launched /\ o.returncode = 0} }
    \cup (IF n = 0 THEN {<<>>} ELSE {})

\* window.folders() at the time of a search
FolderChoices == { << <<"/", "r">> >>, << <<"/", "r">>, <<"/", "s">> >> }

\* the texts submitted to perform_search
QueryChoices == { <<>>, <<" ", "F">>, <<"f">>, <<" ">> }

COULD_NOT_FIND_EXECUTABLE ==
    <<"C", "o", "u", "l", "d", " ", "n", "o", "t", " ", "f", "i", "n", "d",
      " ", "e", "x", "e", "c", "u", "t", "a", "b", "l", "e", " ", "g", "r",
      "e", "p">>

\* Base.run for one spawned process
BaseRun(query, folders, keep_adjacents, proc) ==
    LET base == [query |-> query, keep_adjacents |-> keep_adjacents,
                 launched |-> proc.launched, returncode |-> proc.returncode,
                 output |-> proc.output, error |-> proc.error]
    IN  IF ~proc.launched
        THEN base @@ [raised |-> TRUE, exc |-> "RuntimeError",
                      message |-> COULD_NOT_FIND_EXECUTABLE, value |-> <<>>]
        ELSE IF _is_search_error(proc.returncode, proc.output, proc.error)
        THEN base @@ [raised |-> TRUE, exc |-> "RuntimeError",
                      message |-> _sanitize_output(proc.error), value |-> <<>>]
        ELSE base @@ [raised |-> FALSE, exc |-> "", message |-> <<>>,
                      value |-> _parse_output(_sanitize_output(proc.output),
                                              keep_adjacents)]

\* SearchInProjectCommand.run_engine
run_engine_search(text, folders, procs) ==
    LET r == BaseRun(text, folders, TRUE, procs[1])
    IN  [runs |-> <<r>>, raised |-> r.raised, exc |-> r.exc,
         message |-> r.message, value |-> r.value]

----------------------------------------------------------------------------
(* FindDefinitionInProjectCommand.run_engine *)

UPPERCASE == {"F"}
LOWERCASE == {"f"}

isalpha(c) == c \in UPPERCASE \cup LOWERCASE
upper(c) == IF c = "f" THEN "F" ELSE c

is_uppercasey(text_raw) == isalpha(text_raw[1]) /\ upper(text_raw[1]) = text_raw[1]

LABEL_MODULE == <<"M", "o", "d", "u", "l", "e">>
LABEL_TYPE == <<"T", "y", "p", "e", " ", "d", "e", "f", "'", "n">>
LABEL_CLASS == <<"C", "l", "a", "s", "s", " ", "d", "e", "f", "\n">>
LABEL_CONSTRUCTOR == <<"C", "o", "n", "s", "t", "r", "u", "c", "t", "o", "r">>
LABEL_VALUE_TYPE == <<"V", "a", "l", "u", "e", " ", "t", "y", "p", "e">>
LABEL_VALUE_DEFN == <<"V", "a", "l", "u", "e", " ", "d", "e", "f", "'", "n">>
LABEL_RECORD_GETTER ==
    <<"R", "e", "c", "o", "r", "d", " ", "g", "e", "t", "t", "e", "r">>

\* patterns with the first two categories of each kind exchanged
patterns_reordered(text_raw) ==
    IF isalpha(text_raw[1]) /\ upper(text_raw[1]) = text_raw[1]
    THEN << <<LABEL_TYPE, <<"data_text", text_raw>> >>,
            <<LABEL_MODULE, <<"module_text", text_raw>> >>,
            <<LABEL_CLASS, <<"class_text", text_raw>> >>,
            <<LABEL_CONSTRUCTOR, <<"constructor_text", text_raw>> >> >>
    ELSE << <<LABEL_VALUE_DEFN, <<"value_defn_text", text_raw>> >>,
            <<LABEL_VALUE_TYPE, <<"value_annot_text", text_raw>> >>,
            <<LABEL_RECORD_GETTER, <<"record_getter_text", text_raw>> >> >>

\* the OrderedDict of (pattern_name, pattern); a pattern is the name of its
\* regex template and the symbol formatted into it
patterns(text_raw) ==
    IF is_uppercasey(text_raw)
    THEN << <<LABEL_MODULE, <<"module_text", text_raw>> >>,
            <<LABEL_TYPE, <<"data_text", text_raw>> >>,
            <<LABEL_CLASS, <<"class_text", text_raw>> >>,
            <<LABEL_CONSTRUCTOR, <<"constructor_text", text_raw>> >> >>
    ELSE << <<LABEL_VALUE_TYPE, <<"value_annot_text", text_raw>> >>,
            <<LABEL_VALUE_DEFN, <<"value_defn_text", text_raw>> >>,
            <<LABEL_RECORD_GETTER, <<"record_getter_text", text_raw>> >> >>

\* '{}: {}'.format(pattern_name, c) for every (p, c) of one pattern's results
annotate(pattern_name, pat_results) ==
    [i \in 1..Len(pat_results) |->
        <<pat_results[i][1], pattern_name \o <<":", " ">> \o pat_results[i][2]>>]

\* the loop, were it to return what it has gathered when a run raises
RECURSIVE PatternLoopKeepingPartial(_, _, _, _, _, _)
PatternLoopKeepingPartial(pats, i, folders, procs, done, acc) ==
    IF i > Len(pats)
    THEN [runs |-> done, raised |-> FALSE, exc |-> "", message |-> <<>>,
          value |-> acc]
    ELSE LET r == BaseRun(pats[i][2], folders, FALSE, procs[i])
         IN  IF r.raised
             THEN [runs |-> Append(done, r), raised |-> FALSE, exc |-> "",
                   message |-> <<>>, value |-> acc]
             ELSE PatternLoopKeepingPartial(pats, i + 1, folders, procs,
                                            Append(done, r),
                                            acc \o annotate(pats[i][1], r.value))

\* the for loop over patterns.items(), from the i-th pattern on
RECURSIVE PatternLoop(_, _, _, _, _, _)
PatternLoop(pats, i, folders, procs, done, acc) ==
    IF i > Len(pats)
    THEN [runs |-> done, raised |-> FALSE, exc |-> "", message |-> <<>>,
          value |-> acc]
    ELSE LET r == BaseRun(pats[i][2], folders, FALSE, procs[i])
         IN  IF r.raised
             THEN [runs |-> Append(done, r), raised |-> TRUE, exc |-> r.exc,
                   message |-> r.message, value |-> <<>>]
             ELSE PatternLoop(pats, i + 1, folders, procs, Append(done, r),
                              acc \o annotate(pats[i][1], r.value))

STRING_INDEX_OUT_OF_RANGE ==
    <<"s", "t", "r", "i", "n", "g", " ", "i", "n", "d", "e", "x", " ", "o",
      "u", "t", " ", "o", "f", " ", "r", "a", "n", "g", "e">>

run_engine_definition(text_raw, folders, procs) ==
    LET stripped == strip(text_raw)
    IN  IF stripped = <<>>
        THEN [runs |-> <<>>, raised |-> TRUE, exc |-> "IndexError",
              message |-> STRING_INDEX_OUT_OF_RANGE, value |-> <<>>]
        ELSE PatternLoop(patterns(stripped), 1, folders, procs, <<>>, <<>>)

\* the number of processes one run_engine call spawns at most
Spawned(cmd, text) ==
    IF cmd = "SearchInProjectCommand" THEN 1
    ELSE IF strip(text) = <<>> THEN 0
    ELSE Len(patterns(strip(text)))

run_engine(cmd, text, folders, procs) ==
    IF cmd = "SearchInProjectCommand"
    THEN run_engine_search(text, folders, procs)
    ELSE run_engine_definition(text, folders, procs)

----------------------------------------------------------------------------
(* SearchInProjectCommand: the session *)

\* line 93 were the text kept whole
Normalise_uncapped(cp, rs) ==
    [i \in 1..Len(rs) |-> <<Shorten(cp, rs[i][1]), rs[i][2]>>]

\* line 93: every result shortened and capped
Normalise(cp, rs) ==
    [i \in 1..Len(rs) |->
        <<Shorten(cp, rs[i][1]), prefix(rs[i][2], MAX_RESULT_LINE_LENGTH)>>]

\* list.pop(): the list without its last element
pop(list) == SubSeq(list, 1, Len(list) - 1)

\* SearchInProjectResultsCommand.format_results: the header's counts and the
\* (location, text) pairs of every file's block
format_results(cp, rs, query) ==
    LET filename(r) == split(r[1], ":", 1)[1]
        location(r) == split(r[1], ":", 1)[2]
        filenames == {filename(rs[i]) : i \in 1..Len(rs)}
        pairs == [i \in 1..Len(rs) |-> <<filename(rs[i]), location(rs[i]), rs[i][2]>>]
        OfFile(f) == LET Test(t) == t[1] = f IN SelectSeq(pairs, Test)
    IN  [kind |-> "listing", query |-> query, common_path |-> cp,
         results |-> rs,
         line_count |-> Len(rs),
         file_count |-> Cardinality(filenames),
         grouped_by_filename |->
             [f \in filenames |->
                 [k \in 1..Len(OfFile(f)) |-> <<OfFile(f)[k][2], OfFile(f)[k][3]>>]]]

NOT_RENDERED == [kind |-> "none"]

\* what one invocation of a handler did: the text it was given (perform_search),
\* its integer argument (file_no or offset), the processes it spawned, the
\* locator it opened, the exception it ended with, the results it started
\* from (clear_markup) and the listing it rendered
Did(name, text, arg, spawned, opened, raised, before, listing) ==
    [name |-> name, text |-> text, arg |-> arg, spawned |-> spawned,
     opened |-> opened, raised |-> raised, before |-> before,
     listing |-> listing]

SessionInit ==
    /\ command \in {"SearchInProjectCommand", "FindDefinitionInProjectCommand"}
    /\ show_list_by_default \in {"true", "false"}
    /\ results = <<>>
    /\ last_search_string = <<>>
    /\ last_selected_result_index = 0
    /\ common_path = UNSET
    /\ runs = <<>>
    /\ returned = <<>>
    /\ reported = <<>>
    /\ shown = [kind |-> "none"]
    /\ event = Did("__init__", <<>>, 0, 0, <<>>, "", <<>>, NOT_RENDERED)
    /\ panel_open = FALSE
    /\ open_views = {}
    /\ marked_views = {}

\* line 81 were an empty text searched for like any other
not_text_never(text) == FALSE

\* "not text" (line 81)
not_text(text) == text = <<>>

\* lines 84-85 were the index kept whatever the text
index_kept(text) == last_selected_result_index

\* lines 84-85: the index the search starts from
index_for(text) ==
    IF last_search_string # text THEN 0 ELSE last_selected_result_index

perform_search(text, folders, procs) ==
    IF not_text(text)
    THEN /\ event' = Did("perform_search", text, 0, 0, <<>>, "", <<>>, NOT_RENDERED)
         /\ UNCHANGED <<command, show_list_by_default, results,
                        last_search_string, last_selected_result_index,
                        common_path, runs, returned, reported, shown,
                        panel_open, open_views, marked_views>>
    ELSE LET cp == find_common_path(folders)
             index == index_for(text)
         IN  \* lines 91 and 93, each evaluated once
             \E ran \in {run_engine(command, text, folders, procs)} :
             \E normalised \in {Normalise(cp, ran.value)} :
             /\ last_selected_result_index' = index
             /\ last_search_string' = text
             /\ common_path' = cp
             /\ runs' = ran.runs
             /\ returned' = ran.value
             /\ UNCHANGED <<command, show_list_by_default, open_views, marked_views>>
             /\ IF ran.raised
                THEN /\ results' = <<>>
                     /\ reported' = <<[kind |-> "error_message",
                                       exc |-> ran.exc,
                                       engine_name |-> ENGINE_NAME,
                                       message |-> ran.message]>>
                     /\ shown' = [kind |-> "none"]
                     /\ panel_open' = FALSE
                     /\ event' = Did("perform_search", text, 0, Len(ran.runs),
                                     <<>>, "", <<>>, NOT_RENDERED)
                ELSE IF ran.value # <<>>
                THEN IF show_list_by_default = "true"
                     THEN \* list_in_view(): pop, then hand the list over
                          /\ results' = pop(normalised)
                          /\ reported' = <<>>
                          /\ shown' = [kind |-> "listing",
                                       query |-> text,
                                       results |-> pop(normalised),
                                       common_path |-> replace(cp, <<QUOTE>>, <<>>)]
                          /\ panel_open' = FALSE
                          /\ event' = Did("perform_search", text, 0, Len(ran.runs),
                                          <<>>, "", <<>>,
                                          format_results(replace(cp, <<QUOTE>>, <<>>),
                                                         pop(normalised), text))
                     ELSE /\ results' = Append(normalised, LIST_IN_VIEW)
                          /\ reported' = <<>>
                          /\ shown' = [kind |-> "quick_panel",
                                       items |-> Append(normalised, LIST_IN_VIEW),
                                       index |-> index]
                          /\ panel_open' = TRUE
                          /\ event' = Did("perform_search", text, 0, Len(ran.runs),
                                          <<>>, "", <<>>, NOT_RENDERED)
                ELSE /\ results' = <<>>
                     /\ reported' = <<[kind |-> "message_dialog",
                                       message |-> "No results"]>>
                     /\ shown' = [kind |-> "none"]
                     /\ panel_open' = FALSE
                     /\ event' = Did("perform_search", text, 0, Len(ran.runs),
                                     <<>>, "", <<>>, NOT_RENDERED)

PerformSearch ==
    \E text \in QueryChoices, folders \in FolderChoices :
        \E procs \in ProcChoices(Spawned(command, text)) :
            /\ perform_search(text, folders, procs)
            /\ UNCHANGED <<parseVars, filterVars, pathVars>>

\* the file a stored result points at (lines 118-122): the common path put
\* back in front of the locator, cut at the first colon
file_name_and_col_of(result) ==
    Reprepend(common_path, IF result = LIST_IN_VIEW THEN <<"L">> ELSE result[1])

file_name_of(result) ==
    LET file_name_and_col == file_name_and_col_of(result)
        colon == find(file_name_and_col, ":", 1)
    IN  IF colon # 0 THEN SubSeq(file_name_and_col, 1, colon - 1)
        ELSE file_name_and_col

\* open_and_highlight_file, called by the handler name that was given arg.
\* Whether a view of the file other than the active one exists (line 125) is
\* the host's: a file that is open may or may not be the active view.
open_and_highlight_file(file_no, transient, name, arg) ==
    IF common_path = UNSET
    THEN /\ event' = Did(name, <<>>, arg, 0, <<>>, "AttributeError", <<>>, NOT_RENDERED)
         /\ UNCHANGED <<results, open_views, marked_views>>
    ELSE IF file_no + 1 > Len(results)
    THEN /\ event' = Did(name, <<>>, arg, 0, <<>>, "IndexError", <<>>, NOT_RENDERED)
         /\ UNCHANGED <<results, open_views, marked_views>>
    ELSE LET file_name == file_name_of(results[file_no + 1])
         IN  \/ \* line 126: transient and file_already_open
                /\ transient
                /\ file_name \in open_views
                /\ event' = Did(name, <<>>, arg, 0, <<>>, "", <<>>, NOT_RENDERED)
                /\ UNCHANGED <<results, open_views, marked_views>>
             \/ \* lines 133-141: open the file, mark the query's occurrences
                /\ open_views' = open_views \cup {file_name}
                /\ marked_views' = marked_views \cup {file_name}
                /\ event' = Did(name, <<>>, arg, 0,
                                file_name_and_col_of(results[file_no + 1]),
                                "", <<>>, NOT_RENDERED)
                /\ UNCHANGED results

\* clear_markup: results[:-1], the views found open, erase_regions
clear_markup(name, arg) ==
    LET named == {file_name_of(results[i]) : i \in 1..Len(results) - 1}
    IN  /\ marked_views' = marked_views \ (named \cap open_views)
        /\ results' = <<>>
        /\ event' = Did(name, <<>>, arg, 0, <<>>, "", results, NOT_RENDERED)
        /\ UNCHANGED open_views

\* list_in_view
list_in_view(name, arg) ==
    /\ results' = pop(results)
    /\ event' = Did(name, <<>>, arg, 0, <<>>, "", <<>>,
                    format_results(replace(common_path, <<QUOTE>>, <<>>),
                                   pop(results), last_search_string))
    /\ UNCHANGED <<open_views, marked_views>>

\* goto_result
goto_result(file_no, name, arg) ==
    IF file_no = -1
    THEN clear_markup(name, arg)
    ELSE IF file_no = Len(results) - 1
    THEN list_in_view(name, arg)
    ELSE open_and_highlight_file(file_no, FALSE, name, arg)

\* on_highlighted
on_highlighted(file_no) ==
    /\ last_selected_result_index' = file_no
    /\ IF file_no # -1 /\ file_no # Len(results) - 1
       THEN open_and_highlight_file(file_no, TRUE, "on_highlighted", file_no)
       ELSE /\ event' = Did("on_highlighted", <<>>, file_no, 0, <<>>, "", <<>>,
                            NOT_RENDERED)
            /\ UNCHANGED <<results, open_views, marked_views>>
    /\ UNCHANGED <<command, show_list_by_default, last_search_string,
                   common_path, runs, returned, reported, shown, panel_open>>

\* line 156 were the last entry of the list a target like the others
within_results_and_last(new_index) == 0 <= new_index /\ new_index < Len(results)

\* line 156: 0 <= new_index < len(self.results) - 1
within_results(new_index) == 0 <= new_index /\ new_index < Len(results) - 1

\* goto_relative_result
goto_relative_result(offset) ==
    LET new_index == last_selected_result_index + offset
    IN  /\ IF last_search_string # <<>> /\ within_results(new_index)
           THEN /\ last_selected_result_index' = new_index
                /\ goto_result(new_index, "goto_relative_result", offset)
           ELSE /\ event' = Did("goto_relative_result", <<>>, offset, 0, <<>>,
                                "", <<>>, NOT_RENDERED)
                /\ UNCHANGED <<last_selected_result_index, results, open_views,
                               marked_views>>
        /\ UNCHANGED <<command, show_list_by_default, last_search_string,
                       common_path, runs, returned, reported, shown, panel_open>>

\* ---- the host's calls ----

\* the quick panel's on_highlight callback: a row of the panel is highlighted
OnHighlighted ==
    /\ panel_open
    /\ \E file_no \in 0..Len(shown.items) - 1 : on_highlighted(file_no)
    /\ UNCHANGED <<parseVars, filterVars, pathVars>>

\* the quick panel's on_select callback: a row is chosen, or the panel is
\* dismissed (-1); the panel closes
GotoResult ==
    /\ panel_open
    /\ \E file_no \in -1..Len(shown.items) - 1 :
           goto_result(file_no, "goto_result", file_no)
    /\ panel_open' = FALSE
    /\ UNCHANGED <<command, show_list_by_default, last_search_string,
                   last_selected_result_index, common_path, runs, returned,
                   reported, shown>>
    /\ UNCHANGED <<parseVars, filterVars, pathVars>>

\* run(type="next") and run(type="prev")
GotoRelativeResult ==
    /\ \E offset \in {1, -1} : goto_relative_result(offset)
    /\ UNCHANGED <<parseVars, filterVars, pathVars>>

\* run(type="clear")
ClearMarkup ==
    /\ clear_markup("clear_markup", 0)
    /\ UNCHANGED <<command, show_list_by_default, last_search_string,
                   last_selected_result_index, common_path, runs, returned,
                   reported, shown, panel_open>>
    /\ UNCHANGED <<parseVars, filterVars, pathVars>>

\* the user closes a document: it leaves window.views() with its regions
CloseView ==
    /\ \E file_name \in open_views :
           /\ open_views' = open_views \ {file_name}
           /\ marked_views' = marked_views \ {file_name}
    /\ event' = Did("close", <<>>, 0, 0, <<>>, "", <<>>, NOT_RENDERED)
    /\ UNCHANGED <<command, show_list_by_default, results, last_search_string,
                   last_selected_result_index, common_path, runs, returned,
                   reported, shown, panel_open>>
    /\ UNCHANGED <<parseVars, filterVars, pathVars>>

\* a single line of output
ONE_LINE == <<"/", "r", "/", "b", ".", "t", "x", "t", ":", "7", ":", "x">>

\* the process outcomes of the editing session: the process cannot be
\* launched, or exits with 0 after no line, one line or the three lines of
\* STDOUT_LINES
SessionOutcomes ==
    {o \in ProcOutcomes : o.returncode = 0}
    \cup { [launched |-> TRUE, returncode |-> 0, output |-> ONE_LINE,
            error |-> <<>>] }

SessionQueries == { <<>>, <<"f">>, <<" ", "F">> }

SessionFolders == { << <<"/", "r">> >> }

\* the input panel's on_done callback
SubmitQuery ==
    \E text \in SessionQueries, folders \in SessionFolders,
       outcome \in SessionOutcomes :
        /\ perform_search(text, folders,
                          [i \in 1..Spawned(command, text) |-> outcome])
        /\ UNCHANGED <<parseVars, filterVars, pathVars>>

----------------------------------------------------------------------------
(* Specifications *)

\* all strings over an alphabet, up to a length
Strings(alphabet, n) == UNION {[1..k -> alphabet] : k \in 0..n}

\* all sequences over a set, up to a length
Lists(set, n) == UNION {[1..k -> set] : k \in 0..n}

SessionIdle ==
    /\ command = "SearchInProjectCommand"
    /\ show_list_by_default = "false"
    /\ results = <<>>
    /\ last_search_string = <<>>
    /\ last_selected_result_index = 0
    /\ common_path = UNSET
    /\ runs = <<>>
    /\ returned = <<>>
    /\ reported = <<>>
    /\ shown = [kind |-> "none"]
    /\ event = Did("__init__", <<>>, 0, 0, <<>>, "", <<>>, NOT_RENDERED)
    /\ panel_open = FALSE
    /\ open_views = {}
    /\ marked_views = {}

ParseIdle ==
    /\ p_tuple = <<>> /\ p_text = <<>> /\ p_keep = TRUE
    /\ p_result = <<>> /\ p_pc = "idle"

FilterIdle ==
    /\ f_line_parts = <<>> /\ f_keep = TRUE
    /\ f_out = <<>> /\ f_again = <<>> /\ f_pc = "idle"

PathIdle ==
    /\ c_roots = <<>> /\ c_locator = <<>> /\ c_common = <<>>
    /\ c_short = <<>> /\ c_full = <<>> /\ c_pc = "idle"

\* ---- the session ----
Init == SessionInit /\ ParseIdle /\ FilterIdle /\ PathIdle

Next == PerformSearch

Spec == Init /\ [][Next]_vars

\* ---- the session with the editor's callbacks and commands ----
NextSession ==
    \/ SubmitQuery
    \/ OnHighlighted
    \/ GotoResult
    \/ GotoRelativeResult
    \/ ClearMarkup
    \/ CloseView

\* the handlers are those of SearchInProjectCommand, which the definition
\* search inherits unchanged
InitSession == Init /\ command = "SearchInProjectCommand"

SpecSession == InitSession /\ [][NextSession]_vars

\* ---- the same session, of either command, when the engine reports a line
\*      longer than MAX_RESULT_LINE_LENGTH ----
LONG_LINE ==
    <<"/", "r", "/", "a", ".", "t", "x", "t", ":", "7", ":">>
    \o [i \in 1..MAX_RESULT_LINE_LENGTH + 1 |-> "x"]

SubmitLongQuery ==
    \E text \in {<<"f">>}, folders \in SessionFolders :
        /\ perform_search(text, folders,
                          [i \in 1..Spawned(command, text) |->
                              [launched |-> TRUE, returncode |-> 0,
                               output |-> LONG_LINE, error |-> <<>>]])
        /\ UNCHANGED <<parseVars, filterVars, pathVars>>

NextLong ==
    \/ SubmitLongQuery
    \/ OnHighlighted
    \/ GotoResult
    \/ GotoRelativeResult
    \/ ClearMarkup
    \/ CloseView

SpecLong == Init /\ [][NextLong]_vars

\* ---- _parse_output on bounded outputs ----
MaxOutputLen == 6
MaxFieldLen == 2
MaxTextLen == 3

OutputAlphabet == {"a", "1", ":", " ", "\n"}
PathAlphabet == {"a", " "}
LineAlphabet == {"1", "2"}
ColChoices == {<<>>, <<"3">>}
TextAlphabet == {"t", ":", " "}

FormatLine(path, line, col, text) ==
    path \o <<":">> \o line \o <<":">> \o col \o <<":">> \o text

ParseInit ==
    /\ p_keep \in BOOLEAN
    /\ p_result = <<>>
    /\ p_pc = "start"
    /\ \/ /\ p_tuple = <<>>
          /\ p_text \in Strings(OutputAlphabet, MaxOutputLen)
       \/ \E path \in Strings(PathAlphabet, MaxFieldLen),
             line \in Strings(LineAlphabet, MaxFieldLen),
             col \in ColChoices,
             text \in Strings(TextAlphabet, MaxTextLen) :
             /\ p_tuple = <<path, line, col, text>>
             /\ p_text = FormatLine(path, line, col, text)

ParseOutput ==
    /\ p_pc = "start"
    /\ p_result' = _parse_output(p_text, p_keep)
    /\ p_pc' = "done"
    /\ UNCHANGED <<p_tuple, p_text, p_keep, sessionVars, filterVars, pathVars>>

InitParse == ParseInit /\ SessionIdle /\ FilterIdle /\ PathIdle

NextParse == ParseOutput

SpecParse == InitParse /\ [][NextParse]_vars

\* ---- _filter_lines_without_matches on bounded line_parts ----
MaxLines == 3

FileNames == {<<"a">>, <<"b">>}
LineNumbers == {<<"1">>, <<"2">>, <<"3">>, <<"x">>}

\* split lines with a match (3 fields) and without (fewer)
LinePartChoices ==
    {<<f, n, <<"t">>>> : f \in FileNames, n \in LineNumbers}
    \cup {<<<<"a">>, <<"1">>>>, <<<<>>>>}

FilterInit ==
    /\ f_line_parts \in Lists(LinePartChoices, MaxLines)
    /\ f_keep \in BOOLEAN
    /\ f_out = <<>>
    /\ f_again = <<>>
    /\ f_pc = "start"

Filter ==
    /\ f_pc = "start"
    /\ f_out' = _filter_lines_without_matches(f_line_parts, f_keep)
    /\ f_pc' = "filtered"
    /\ UNCHANGED <<f_line_parts, f_keep, f_again, sessionVars, parseVars, pathVars>>

FilterAgain ==
    /\ f_pc = "filtered"
    /\ f_again' = _filter_lines_without_matches(f_out, f_keep)
    /\ f_pc' = "again"
    /\ UNCHANGED <<f_line_parts, f_keep, f_out, sessionVars, parseVars, pathVars>>

InitFilter == FilterInit /\ SessionIdle /\ ParseIdle /\ PathIdle

NextFilter == Filter \/ FilterAgain

SpecFilter == InitFilter /\ [][NextFilter]_vars

\* ---- find_common_path, shortening, re-prepending ----
MaxRoots == 2

RootChoices ==
    { <<"/", "a">>, <<"/", "b">>, <<"/", "a", "/", "b">>, <<"/", "a", "/", "c">>,
      <<"/", "a", "/", "b", "/", "c">>, <<QUOTE, "/", "a", "/", "b", QUOTE>> }

\* paths of files below a root, with the line number the engine appends
RelativeChoices ==
    { <<"f", ":", "1">>, <<"c", "/", "f", ":", "1">>, <<"a", "/", "f", ":", "1">>,
      <<"x", "/", "a", "/", "b", "/", "f", ":", "1">> }

PathInit ==
    /\ c_roots \in Lists(RootChoices, MaxRoots) \ {<<>>}
    /\ c_locator = <<>>
    /\ c_common = <<>>
    /\ c_short = <<>>
    /\ c_full = <<>>
    /\ c_pc = "start"

\* perform_search line 89
FindCommonPath ==
    /\ c_pc = "start"
    /\ c_common' = find_common_path(c_roots)
    /\ c_pc' = "resolved"
    /\ UNCHANGED <<c_roots, c_locator, c_short, c_full,
                   sessionVars, parseVars, filterVars>>

\* perform_search line 93, for a locator the engine reports below one root
ShortenLocator ==
    /\ c_pc = "resolved"
    /\ \E i \in 1..Len(c_roots), rel \in RelativeChoices :
          LET locator == replace(c_roots[i], <<QUOTE>>, <<>>) \o <<"/">> \o rel
          IN  /\ c_locator' = locator
              /\ c_short' = Shorten(c_common, locator)
    /\ c_pc' = "shortened"
    /\ UNCHANGED <<c_roots, c_common, c_full, sessionVars, parseVars, filterVars>>

\* open_and_highlight_file line 118
ReprependLocator ==
    /\ c_pc = "shortened"
    /\ c_full' = Reprepend(c_common, c_short)
    /\ c_pc' = "done"
    /\ UNCHANGED <<c_roots, c_locator, c_common, c_short,
                   sessionVars, parseVars, filterVars>>

InitPath == PathInit /\ SessionIdle /\ ParseIdle /\ FilterIdle

NextPath == FindCommonPath \/ ShortenLocator \/ ReprependLocator

SpecPath == InitPath /\ [][NextPath]_vars

----------------------------------------------------------------------------
(* Properties of the session (Spec) *)

A_TXT_1 == <<"a", ".", "t", "x", "t", ":", "1">>
B_TXT_5 == <<"b", ".", "t", "x", "t", ":", "5">>
TEXT_HELLO == <<"h", "e", "l", "l", "o">>
TEXT_OTHER == <<"o", "t", "h", "e", "r">>
COMMON_R == <<QUOTE, "/", "r", "/", QUOTE>>

\* C1: whenever the search process terminates with a non-zero exit status,
\* Base.run raises an error whose message is the trimmed, decoded standard
\* error ("no such directory"), and perform_search reports that message and
\* ends with an empty result list.
C1_NonZeroExitIsReported ==
    \A i \in 1..Len(runs) :
        (runs[i].launched /\ runs[i].returncode # 0) =>
            /\ runs[i].raised
            /\ runs[i].message = NO_SUCH_DIRECTORY
            /\ results = <<>>
            /\ Len(reported) = 1
            /\ reported[1].kind = "error_message"
            /\ reported[1].message = NO_SUCH_DIRECTORY

\* the first character of the query that is not a blank, "" if there is none
RECURSIVE FirstNonBlank(_)
FirstNonBlank(s) ==
    IF s = <<>> THEN ""
    ELSE IF Head(s) = " " THEN FirstNonBlank(Tail(s))
    ELSE Head(s)

\* the categories a definition search goes through, in order
C8_Categories ==
    IF FirstNonBlank(last_search_string) = "F"
    THEN << <<LABEL_MODULE, "module_text">>, <<LABEL_TYPE, "data_text">>,
            <<LABEL_CLASS, "class_text">>,
            <<LABEL_CONSTRUCTOR, "constructor_text">> >>
    ELSE << <<LABEL_VALUE_TYPE, "value_annot_text">>,
            <<LABEL_VALUE_DEFN, "value_defn_text">>,
            <<LABEL_RECORD_GETTER, "record_getter_text">> >>

\* the per-category results of runs i.., each text behind its category label
RECURSIVE C8_Concatenation(_)
C8_Concatenation(i) ==
    IF i > Len(runs) THEN <<>>
    ELSE [n \in 1..Len(runs[i].value) |->
             <<runs[i].value[n][1],
               C8_Categories[i][1] \o <<":", " ">> \o runs[i].value[n][2]>>]
         \o C8_Concatenation(i + 1)

C8_Completed ==
    /\ command = "FindDefinitionInProjectCommand"
    /\ runs # <<>>
    /\ \A i \in 1..Len(runs) : ~runs[i].raised

\* C8: a definition search classifies the symbol by its first character, runs
\* the engine once per category in the fixed order Module, Type, Class,
\* Constructor (type-like) or Value type, Value definition, Record getter
\* (value-like), each time with keep_adjacents = false, and returns the
\* concatenation of the per-category results in that order, every text
\* prefixed with its category label.
C8_DefinitionCategories ==
    C8_Completed =>
        /\ Len(runs) = Len(C8_Categories)
        /\ \A i \in 1..Len(runs) :
              /\ runs[i].keep_adjacents = FALSE
              /\ runs[i].query[1] = C8_Categories[i][2]
              /\ runs[i].query[2] = <<FirstNonBlank(last_search_string)>>
        /\ returned = C8_Concatenation(1)

\* a type-like search whose first and last category both found something
C8_Witness ==
    /\ C8_Completed
    /\ FirstNonBlank(last_search_string) = "F"
    /\ Len(returned) >= 4
    /\ startswith(returned[1][2], LABEL_MODULE)
    /\ startswith(returned[Len(returned)][2], LABEL_CONSTRUCTOR)

\* the results without the synthetic trailing entry
RealResults ==
    IF results # <<>> /\ results[Len(results)] = LIST_IN_VIEW
    THEN pop(results) ELSE results

\* a search below the single root /r in which exactly run i found the three
\* lines and every other run found nothing
C9_Scenario(i) ==
    /\ common_path = COMMON_R
    /\ \A j \in 1..Len(runs) : runs[j].launched /\ runs[j].returncode = 0
    /\ runs[i].keep_adjacents = FALSE
    /\ runs[i].output = STDOUT_LINES \o <<"\n">>
    /\ \A j \in 1..Len(runs) : j # i => runs[j].output = <<>>
    /\ Len(runs) = Len(C8_Categories)

\* C9: with keep_adjacents = false, lines of one file on consecutive line
\* numbers followed by a line of another file leave in the session's result
\* list the first and the third result, common path stripped, in order:
\* a.txt:1 "hello", b.txt:5 "other" (the texts behind the category label the
\* definition search puts in front of them).
C9_EndToEnd ==
    \A i \in 1..Len(runs) :
        C9_Scenario(i) =>
            RealResults =
                << <<A_TXT_1, C8_Categories[i][1] \o <<":", " ">> \o TEXT_HELLO>>,
                   <<B_TXT_5, C8_Categories[i][1] \o <<":", " ">> \o TEXT_OTHER>> >>

\* the last perform_search ended with an exception from the engine run: a
\* process could not be launched, or the definition symbol was blank
C10_Failed ==
    \/ \E i \in 1..Len(runs) : ~runs[i].launched
    \/ /\ command = "FindDefinitionInProjectCommand"
       /\ last_search_string # <<>>
       /\ FirstNonBlank(last_search_string) = ""

\* the last perform_search ended with an empty result set
C10_Empty ==
    /\ last_search_string # <<>>
    /\ ~C10_Failed
    /\ \A i \in 1..Len(runs) : runs[i].output = <<>>

\* C10: after a perform_search that ends with an exception from the engine
\* run or with an empty result set, the result list is empty, neither the
\* selectable list nor the listing view is shown, and exactly one message is
\* reported: the error annotated with the engine name, or "No results".
C10_FailureOrEmptyShowsNothing ==
    (C10_Failed \/ C10_Empty) =>
        /\ results = <<>>
        /\ shown.kind = "none"
        /\ Len(reported) = 1
        /\ C10_Failed => /\ reported[1].kind = "error_message"
                         /\ reported[1].engine_name = ENGINE_NAME
        /\ C10_Empty => reported[1] = [kind |-> "message_dialog",
                                       message |-> "No results"]

\* a definition search that found results for one category and then could
\* not launch the process of a later one
C10_Witness ==
    /\ C10_Failed
    /\ Len(runs) >= 2
    /\ runs[1].value # <<>>
    /\ ~runs[Len(runs)].launched
    /\ results = <<>>

----------------------------------------------------------------------------
(* Properties of _parse_output (SpecParse) *)

\* t is s without its leading and trailing whitespace
IsTrimOf(t, s) ==
    \E a, b \in 0..Len(s) :
        /\ a + b <= Len(s)
        /\ \A n \in 1..a : s[n] \in WS
        /\ \A n \in (Len(s) - b + 1)..Len(s) : s[n] \in WS
        /\ t = SubSeq(s, a + 1, Len(s) - b)
        /\ t = <<>> \/ (t[1] \notin WS /\ t[Len(t)] \notin WS)

\* the single line was formatted from a path, a digit-only line and col, a text
C6_Formatted ==
    /\ p_pc = "done"
    /\ p_tuple # <<>>
    /\ AllDigits(p_tuple[2])
    /\ AllDigits(p_tuple[3])

C6_Parsed ==
    /\ Len(p_result) = 1
    /\ p_result[1][1] = p_tuple[1] \o <<":">> \o p_tuple[2] \o <<":">> \o p_tuple[3]
    /\ IsTrimOf(p_result[1][2], p_tuple[4])

\* C6 as stated: for every path without ':' and newline, every digit-only
\* line and col and every text without newline, parsing "path:line:col:text"
\* yields one result with locator "path:line:col" and the trimmed text.
C6_EveryPath == C6_Formatted => C6_Parsed

\* C6, amended: the same for every such path that is not empty.
C6_NonEmptyPath == (C6_Formatted /\ p_tuple[1] # <<>>) => C6_Parsed

\* a text that holds a colon and is trimmed
C6_Witness ==
    /\ C6_Formatted
    /\ p_tuple[1] # <<>>
    /\ \E n \in 1..Len(p_tuple[4]) : p_tuple[4][n] = ":"
    /\ p_result[1][2] # p_tuple[4]

ColonCount(line) == Cardinality({n \in 1..Len(line) : line[n] = ":"})

\* the lines of the output that split into at least 3 fields
C7_Remaining ==
    SelectSeq(split(p_text, "\n", -1), LAMBDA line : ColonCount(line) >= 2)

\* res is a locator and a text cut from line at one of its colons
IsResultOf(res, line) ==
    /\ startswith(line, res[1] \o <<":">>)
    /\ IsTrimOf(res[2], SubSeq(line, Len(res[1]) + 2, Len(line)))

\* C7: a line that splits into fewer than 3 colon-delimited fields never
\* produces a result (empty output gives no result), and with keep_adjacents
\* = true the results are exactly the remaining lines, one per line, in
\* output order.
C7_ShortLinesDropped ==
    p_pc = "done" =>
        /\ p_text = <<>> => p_result = <<>>
        /\ Len(p_result) <= Len(C7_Remaining)
        /\ \A i \in 1..Len(p_result) :
              \E j \in 1..Len(C7_Remaining) : IsResultOf(p_result[i], C7_Remaining[j])
        /\ p_keep =>
              /\ Len(p_result) = Len(C7_Remaining)
              /\ \A i \in 1..Len(p_result) : IsResultOf(p_result[i], C7_Remaining[i])

\* an output with a dropped line and a line that gives a result
C7_Witness ==
    /\ p_pc = "done"
    /\ p_keep
    /\ p_tuple = <<>>
    /\ Len(p_result) >= 1
    /\ Len(split(p_text, "\n", -1)) > Len(p_result)
    /\ \E n \in 1..Len(p_text) : p_text[n] = "a"

----------------------------------------------------------------------------
(* Properties of _filter_lines_without_matches (SpecFilter) *)

\* the line_parts with more than 2 fields
WellFormed == SelectSeq(f_line_parts, LAMBDA line : Len(line) > 2)

IsNumeric(field) == field \in {<<"1">>, <<"2">>, <<"3">>}

NumberOf(field) ==
    CASE field = <<"1">> -> 1 [] field = <<"2">> -> 2 [] field = <<"3">> -> 3

\* same file, both line numbers numeric, and the second one greater by one
Adjacent(before, this) ==
    /\ this[1] = before[1]
    /\ IsNumeric(this[2]) /\ IsNumeric(before[2])
    /\ NumberOf(this[2]) = NumberOf(before[2]) + 1

\* the elements of r at the indices in I, in order
RECURSIVE PickFrom(_, _, _)
PickFrom(r, I, i) ==
    IF i > Len(r) THEN <<>>
    ELSE (IF i \in I THEN <<r[i]>> ELSE <<>>) \o PickFrom(r, I, i + 1)

\* deduplication that compares each result to the last one it kept
RECURSIVE DedupAgainstKept(_, _, _)
DedupAgainstKept(r, i, kept) ==
    IF i > Len(r) THEN kept
    ELSE IF kept # <<>> /\ Adjacent(kept[Len(kept)], r[i])
    THEN DedupAgainstKept(r, i + 1, kept)
    ELSE DedupAgainstKept(r, i + 1, Append(kept, r[i]))

\* C2 as stated: with keep_adjacents = false the filter keeps the first
\* well-formed result and every later one unless it is adjacent to the
\* preceding KEPT result.
C2_ComparesToKept ==
    (f_pc # "start" /\ ~f_keep) =>
        f_out = DedupAgainstKept(WellFormed, 1, <<>>)

\* C2, amended: with keep_adjacents = false the filter keeps the first
\* well-formed result and every later one unless it has the file of the
\* well-formed result immediately before it in the input (kept or not) and
\* that result's line number plus one; a result is kept when its line number
\* or that predecessor's is not numeric.
C2_ComparesToPreceding ==
    (f_pc # "start" /\ ~f_keep) =>
        f_out = PickFrom(WellFormed,
                         {i \in 1..Len(WellFormed) :
                             i = 1 \/ ~Adjacent(WellFormed[i - 1], WellFormed[i])},
                         1)

\* three results on consecutive lines of one file, merged into the first
C2_Witness ==
    /\ f_pc = "filtered"
    /\ ~f_keep
    /\ Len(WellFormed) = 3
    /\ Adjacent(WellFormed[1], WellFormed[2])
    /\ Adjacent(WellFormed[2], WellFormed[3])
    /\ f_out = <<WellFormed[1]>>

\* C3 as stated: applying the keep_adjacents = false filter to its own output
\* returns that output unchanged.
C3_Idempotent == (f_pc = "again" /\ ~f_keep) => f_again = f_out

\* no result has the file of the result before it and a numeric line number
\* that is not greater than that result's
StrictlyIncreasing ==
    \A i \in 2..Len(WellFormed) :
        (/\ WellFormed[i][1] = WellFormed[i - 1][1]
         /\ IsNumeric(WellFormed[i][2])
         /\ IsNumeric(WellFormed[i - 1][2]))
        => NumberOf(WellFormed[i][2]) > NumberOf(WellFormed[i - 1][2])

\* C3, amended: deduplication is idempotent on result lines whose line
\* numbers increase within a file: when no line has the file of the line
\* before it and a numeric line number not greater than that line's, the
\* output has no two consecutive entries of one file with line numbers n and
\* n+1, and filtering it again returns it unchanged.
C3_IdempotentOnIncreasing ==
    (f_pc = "again" /\ ~f_keep /\ StrictlyIncreasing) =>
        /\ f_again = f_out
        /\ \A i \in 2..Len(f_out) : ~Adjacent(f_out[i - 1], f_out[i])

\* an increasing input of which a line was merged and two results remain
C3_Witness ==
    /\ f_pc = "again"
    /\ ~f_keep
    /\ StrictlyIncreasing
    /\ Len(f_out) = 2
    /\ Len(WellFormed) = 3
    /\ f_out[1][1] = f_out[2][1]

----------------------------------------------------------------------------
(* Properties of find_common_path and the shortening (SpecPath) *)

\* the roots without their quotes, and their segments
Unquoted == [i \in 1..Len(c_roots) |-> SelectSeq(c_roots[i], LAMBDA c : c # QUOTE)]
SegmentsOf == [i \in 1..Len(c_roots) |-> split(Unquoted[i], "/", -1)]

\* the first k segments are shared by all roots
SharedUpTo(k) ==
    \A i \in 1..Len(c_roots) :
        /\ Len(SegmentsOf[i]) >= k
        /\ \A n \in 1..k : SegmentsOf[i][n] = SegmentsOf[1][n]

\* the longest run of leading segments all roots share, joined by "/"
LongestShared ==
    LET k == CHOOSE k \in 0..Len(SegmentsOf[1]) :
                 SharedUpTo(k) /\ ~SharedUpTo(k + 1)
    IN  join(<<"/">>, SubSeq(SegmentsOf[1], 1, k))

\* C4: shortening and re-prepending round-trip exactly: stripping the common
\* path from a locator under the roots and re-prepending the common path
\* recovers the locator.
C4_RoundTrip == c_pc = "done" => c_full = c_locator

\* C5 as stated: find_common_path returns, within quotes, the longest run of
\* leading segments shared by all roots, joined by "/" with one trailing "/",
\* and this string is a prefix of every root.
C5_PrefixWithSeparator ==
    c_pc # "start" =>
        /\ c_common = <<QUOTE>> \o LongestShared \o <<"/", QUOTE>>
        /\ \A i \in 1..Len(c_roots) :
              startswith(Unquoted[i], LongestShared \o <<"/">>)

\* C5, amended: find_common_path returns, within quotes, the longest run of
\* leading segments shared by all roots (the loop stops at the first segment
\* that differs or when a root has no segment left), joined by "/" with one
\* trailing "/"; the string before that trailing "/" is a prefix of every
\* root.
C5_PrefixBeforeSeparator ==
    c_pc # "start" =>
        /\ c_common = <<QUOTE>> \o LongestShared \o <<"/", QUOTE>>
        /\ \A i \in 1..Len(c_roots) : startswith(Unquoted[i], LongestShared)

\* two different roots that share two leading segments and then differ
C5_Witness ==
    /\ c_pc = "resolved"
    /\ Len(c_roots) = 2
    /\ SharedUpTo(2)
    /\ ~SharedUpTo(3)
    /\ Len(SegmentsOf[1]) >= 3
    /\ Len(SegmentsOf[2]) >= 3

----------------------------------------------------------------------------
(* Properties of the session with the editor's callbacks and commands *)

\* the step is a perform_search given an empty text
EmptySearchStep == event'.name = "perform_search" /\ event'.text = <<>>

\* C11: perform_search with an empty text is a no-op: it spawns no search
\* process, shows nothing, and leaves results, last_search_string,
\* last_selected_result_index and common_path as they were, whatever the
\* state it is called in.
C11_EmptyTextIsNoOp ==
    [][EmptySearchStep =>
          /\ event'.spawned = 0
          /\ event'.opened = <<>>
          /\ event'.listing = NOT_RENDERED
          /\ UNCHANGED <<results, last_search_string,
                         last_selected_result_index, common_path>>
          /\ UNCHANGED <<runs, returned, reported, shown, panel_open,
                         open_views, marked_views>>]_vars

\* an empty text was submitted while results of an earlier search were held,
\* a row other than the first was highlighted and a document carried regions
C11_Witness ==
    /\ event.name = "perform_search"
    /\ event.text = <<>>
    /\ results # <<>>
    /\ last_search_string # <<>>
    /\ last_selected_result_index > 0
    /\ marked_views # {}

\* the step is a perform_search given a text that is not empty
SearchStep == event'.name = "perform_search" /\ event'.text # <<>>

\* C12: a search whose text differs from the previous search's resets
\* last_selected_result_index to 0; a search with the same text keeps the
\* index the last highlight or navigation left; either way that index is the
\* initial index handed to the quick panel.
C12_IndexResetOrKept ==
    [][SearchStep =>
          /\ last_selected_result_index' =
                 IF event'.text # last_search_string
                 THEN 0 ELSE last_selected_result_index
          /\ shown'.kind = "quick_panel" =>
                 shown'.index = last_selected_result_index']_vars

\* the text of the previous search was searched again after another row than
\* the first had been highlighted: the panel opens on that row
C12_Witness ==
    /\ event.name = "perform_search"
    /\ event.text # <<>>
    /\ shown.kind = "quick_panel"
    /\ shown.index > 0
    /\ last_selected_result_index = shown.index

\* the number of real results held
RealCount == Cardinality({i \in 1..Len(results) : results[i] # LIST_IN_VIEW})

\* C13 as stated: after goto_relative_result in a state with n >= 1 real
\* results, last_selected_result_index is a valid index of a real result
\* (0 <= index <= n - 1).
C13_IndexOfRealResult ==
    (event.name = "goto_relative_result" /\ RealCount >= 1) =>
        /\ 0 <= last_selected_result_index
        /\ last_selected_result_index <= RealCount - 1

\* C13, amended: a relative step never leaves the range of real results, but
\* it does not clamp. goto_relative_result either moves
\* last_selected_result_index by the offset to a valid index of a real result
\* (never the synthetic entry), opens that result's file and renders nothing,
\* or does nothing at all, leaving the index where it was (which can be the
\* index of the synthetic entry, left there by highlighting it).
C13_MovesWithinRealResultsOrNotAtAll ==
    [][event'.name = "goto_relative_result" =>
          \/ /\ UNCHANGED <<results, last_selected_result_index,
                            open_views, marked_views>>
             /\ event'.opened = <<>>
             /\ event'.listing = NOT_RENDERED
          \/ /\ last_selected_result_index' =
                    last_selected_result_index + event'.arg
             /\ 0 <= last_selected_result_index'
             /\ last_selected_result_index' <= RealCount - 1
             /\ results[last_selected_result_index' + 1] # LIST_IN_VIEW
             /\ event'.opened =
                    file_name_and_col_of(results[last_selected_result_index' + 1])
             /\ event'.listing = NOT_RENDERED
             /\ UNCHANGED results]_vars

\* a relative step moved to a later result and opened its file
C13_Witness ==
    /\ event.name = "goto_relative_result"
    /\ event.arg = 1
    /\ event.opened # <<>>
    /\ last_selected_result_index > 0
    /\ results # <<>>

\* the last handler was clear_markup, run as a command or by dismissing the panel
Cleared ==
    \/ event.name = "clear_markup"
    \/ event.name = "goto_result" /\ event.arg = -1

\* C14: after clear_markup the result list is empty and no open document that
\* a former result refers to still carries the "search_in_project" regions.
C14_NoFormerResultMarked ==
    Cleared =>
        /\ results = <<>>
        /\ \A i \in 1..Len(event.before) :
              event.before[i] # LIST_IN_VIEW =>
                  file_name_of(event.before[i]) \notin marked_views

\* file names of a list of results, as format_results splits them off
FilesOf(rs) == {split(rs[i][1], ":", 1)[1] : i \in 1..Len(rs)}

\* C15: whenever the listing is rendered, the results handed to it are all
\* the results of the search: the header's line count is the number of
\* results the engine returned, its file count is the number of distinct
\* files, and every result appears once in its file's block.
C15_ListingHasEveryResult ==
    event.listing.kind = "listing" =>
        LET all == Normalise(common_path, returned)
        IN  /\ event.listing.results = all
            /\ event.listing.line_count = Len(returned)
            /\ event.listing.file_count = Cardinality(FilesOf(all))
            /\ \A i \in 1..Len(all) :
                  LET parts == split(all[i][1], ":", 1)
                      block == event.listing.grouped_by_filename[parts[1]]
                  IN  Cardinality({k \in 1..Len(block) :
                                      block[k] = <<parts[2], all[i][2]>>})
                      = Cardinality({j \in 1..Len(all) : all[j] = all[i]})

\* C16: in every state of the session, every real result held in the result
\* list has a text of at most MAX_RESULT_LINE_LENGTH characters, in a plain
\* search and in a labelled definition search alike.
C16_TextsCapped ==
    \A i \in 1..Len(results) :
        results[i] # LIST_IN_VIEW =>
            Len(results[i][2]) <= MAX_RESULT_LINE_LENGTH

\* a definition search returned a labelled text longer than the cap and the
\* result list holds it cut to the cap
C16_Witness ==
    /\ command = "FindDefinitionInProjectCommand"
    /\ results # <<>>
    /\ returned # <<>>
    /\ Len(returned[1][2]) > MAX_RESULT_LINE_LENGTH
    /\ Len(results[1][2]) = MAX_RESULT_LINE_LENGTH
    /\ startswith(results[1][2], LABEL_VALUE_TYPE)

\* C17: whenever the result list is not empty, its last element is the
\* synthetic "list in view" entry and every other element is a real result.
C17_SyntheticEntryLast ==
    results # <<>> =>
        /\ results[Len(results)] = LIST_IN_VIEW
        /\ \A i \in 1..Len(results) - 1 : results[i] # LIST_IN_VIEW

\* C18: whenever the quick panel is shown, the initial index handed to it is
\* a valid index into the items shown.
C18_InitialIndexValid ==
    shown.kind = "quick_panel" =>
        /\ 0 <= shown.index
        /\ shown.index < Len(shown.items)

====
